---- MODULE Spec2Model ----
(***************************************************************************)
(* Model of src/app/layout.tsx: the root layout component of the web       *)
(* application.  The module evaluates `Inter({ subsets: ["latin"] })` once *)
(* when it is loaded and exports RootLayout, which returns the element     *)
(* tree html > body > Providers > children.                                *)
(*                                                                         *)
(* A React node is a record [type, attrs, children]: `type` is the tag or  *)
(* component name, `attrs` the set of <<name, value>> pairs of the props   *)
(* other than children, `children` the sequence of child nodes.            *)
(***************************************************************************)
EXTENDS Integers, Sequences, FiniteSets, TLC

VARIABLES
    loaded,      \* whether the module body (lines 1-8) has been evaluated
    inter,       \* the module-level `const inter` (line 8)
    interCalls,  \* the calls of the font loader so far: options and result
    props,       \* the props object of the latest call, as the caller holds it
    renders      \* the calls of RootLayout so far: children given, completion

vars == <<loaded, inter, interCalls, props, renders>>

\* Bounds of the model.
MaxRenders == 3
MaxChildren == 2

(***************************************************************************)
(* React nodes                                                             *)
(***************************************************************************)
Node(type, attrs, children) ==
    [type |-> type, attrs |-> attrs, children |-> children]

\* The value `null` (also standing for undefined / no children).
NullNode == Node("#null", {}, <<>>)

\* A string child.
Text(s) == Node("#text", {<<"value", s>>}, <<>>)

\* The props object of a call before the caller has built it.
NoProps == [children |-> NullNode]

\* The value of `inter` before the module is evaluated.
NoFont == [className |-> ""]

\* Class names the font loader may generate for the Inter font.
FontClassNames == {"__className_d65c78", "__className_e8ce0c"}

\* Non-null child nodes: a string and an element with its own child.
Atoms == {Text("a"), Node("p", {}, <<Text("b")>>)}

SeqsUpTo(S, n) == UNION {[1..k -> S] : k \in 0..n}

\* React.ReactNode values passed as `children`: null, an atom, or an array of
\* atoms (the empty array included).
ChildTrees ==
    {NullNode} \cup Atoms \cup {Node("#array", {}, s) : s \in SeqsUpTo(Atoms, MaxChildren)}

(***************************************************************************)
(* layout.tsx                                                              *)
(***************************************************************************)
\* next/font/google Inter(options): returns the font object whose class name
\* the framework generated.
Inter(options, generated) == [className |-> generated]

\* A returned html > body tree, for the variants of RootLayout below.
Shell(htmlAttrs, bodyAttrs, bodyChildren) ==
    [kind  |-> "return",
     value |-> Node("html", htmlAttrs, <<Node("body", bodyAttrs, bodyChildren)>>)]

\* RootLayout with Providers placed around body instead of inside it.
RootLayout_ProvidersAroundBody(children) ==
    [kind  |-> "return",
     value |-> Node("html", {<<"lang", "en">>},
                 <<Node("Providers", {},
                     <<Node("body", {<<"className", inter.className>>}, <<children>>)>>)>>)]

\* RootLayout that also renders the children next to Providers.
RootLayout_ChildrenBesideProviders(children) ==
    Shell({<<"lang", "en">>}, {<<"className", inter.className>>},
          <<Node("Providers", {}, <<children>>), children>>)

\* RootLayout with a guard that rejects null children.
RootLayout_ThrowsOnNull(children) ==
    IF children = NullNode
    THEN [kind |-> "throw", value |-> NullNode]
    ELSE Shell({<<"lang", "en">>}, {<<"className", inter.className>>},
               <<Node("Providers", {}, <<children>>)>>)

\* RootLayout that leaves the font class off the body.
RootLayout_NoFontClass(children) ==
    Shell({<<"lang", "en">>}, {}, <<Node("Providers", {}, <<children>>)>>)

\* RootLayout that applies the font class on the first render only.
RootLayout_FontOnFirstRender(children) ==
    Shell({<<"lang", "en">>},
          IF renders = <<>> THEN {<<"className", inter.className>>} ELSE {},
          <<Node("Providers", {}, <<children>>)>>)

\* RootLayout that sets lang only when it has children.
RootLayout_LangWhenChildren(children) ==
    Shell(IF children = NullNode THEN {} ELSE {<<"lang", "en">>},
          {<<"className", inter.className>>},
          <<Node("Providers", {}, <<children>>)>>)

\* export default function RootLayout({ children }): the completion of a call.
RootLayout(children) ==
    [kind  |-> "return",
     value |-> Node("html", {<<"lang", "en">>},
                 <<Node("body", {<<"className", inter.className>>},
                     <<Node("Providers", {}, <<children>>)>>)>>)]

Init ==
    /\ loaded = FALSE
    /\ inter = NoFont
    /\ interCalls = <<>>
    /\ props = NoProps
    /\ renders = <<>>

\* Evaluation of the module body: line 8, `const inter = Inter({...})`.
LoadModule ==
    /\ ~loaded
    /\ \E g \in FontClassNames :
         LET options == [subsets |-> <<"latin">>]
             font == Inter(options, g)
         IN /\ inter' = font
            /\ interCalls' = Append(interCalls, [options |-> options, returned |-> font])
    /\ loaded' = TRUE
    /\ UNCHANGED <<props, renders>>

\* Render with the font loader called inside the component body.
Render_CallsInter ==
    /\ loaded
    /\ Len(renders) < MaxRenders
    /\ \E c \in ChildTrees, g \in FontClassNames :
         LET options == [subsets |-> <<"latin">>]
             font == Inter(options, g)
         IN /\ props' = [children |-> c]
            /\ renders' = Append(renders, [given |-> c, outcome |-> RootLayout(c)])
            /\ inter' = font
            /\ interCalls' = Append(interCalls, [options |-> options, returned |-> font])
    /\ UNCHANGED loaded

\* Render that writes to the module-level font object.
Render_WritesFont ==
    /\ loaded
    /\ Len(renders) < MaxRenders
    /\ \E c \in ChildTrees :
         /\ props' = [children |-> c]
         /\ renders' = Append(renders, [given |-> c, outcome |-> RootLayout(c)])
    /\ inter' = [inter EXCEPT !.className = "inter"]
    /\ UNCHANGED <<loaded, interCalls>>

\* One call of RootLayout by the framework with a props object {children}.
Render ==
    /\ loaded
    /\ Len(renders) < MaxRenders
    /\ \E c \in ChildTrees :
         /\ props' = [children |-> c]
         /\ renders' = Append(renders, [given |-> c, outcome |-> RootLayout(c)])
    /\ UNCHANGED <<loaded, inter, interCalls>>

Next == LoadModule \/ Render

Spec == Init /\ [][Next]_vars

(***************************************************************************)
(* Observations on element trees                                           *)
(***************************************************************************)
RECURSIVE CountType(_, _)
\* Number of nodes of the given type in a tree.
CountType(node, t) ==
    LET RECURSIVE Sum(_)
        Sum(i) == IF i = 0 THEN 0 ELSE CountType(node.children[i], t) + Sum(i - 1)
    IN (IF node.type = t THEN 1 ELSE 0) + Sum(Len(node.children))

RECURSIVE Size(_)
\* Number of nodes in a tree.
Size(node) ==
    LET RECURSIVE Sum(_)
        Sum(i) == IF i = 0 THEN 0 ELSE Size(node.children[i]) + Sum(i - 1)
    IN 1 + Sum(Len(node.children))

RECURSIVE Strip(_)
\* A tree with the content of every Providers element removed.
Strip(node) ==
    IF node.type = "Providers"
    THEN [node EXCEPT !.children = <<>>]
    ELSE [node EXCEPT !.children = [i \in 1..Len(node.children) |-> Strip(node.children[i])]]

\* The only child of a node, NullNode when it has none or several.
Only(node) == IF Len(node.children) = 1 THEN node.children[1] ELSE NullNode

Rendered == 1..Len(renders)
Tree(i) == renders[i].outcome.value
BodyOf(i) == Only(Tree(i))
ProvidersOf(i) == Only(BodyOf(i))
AttrValues(node, name) == {a[2] : a \in {b \in node.attrs : b[1] = name}}
IsArrayOf(c, n) == c.type = "#array" /\ Len(c.children) = n

\* C1: every render yields exactly one html root holding exactly one body,
\* holding exactly one Providers element, holding the given children.
C1_Nesting ==
    \A i \in Rendered :
        /\ Tree(i).type = "html"
        /\ CountType(Tree(i), "html") = 1
        /\ CountType(Tree(i), "body") = 1
        /\ CountType(Tree(i), "Providers") = 1
        /\ BodyOf(i).type = "body"
        /\ ProvidersOf(i).type = "Providers"
        /\ ProvidersOf(i).children = <<renders[i].given>>

C1_Witness ==
    \E i \in Rendered :
        /\ IsArrayOf(renders[i].given, 2)
        /\ CountType(Tree(i), "body") = 1
        /\ ProvidersOf(i).children = <<renders[i].given>>

\* C2: the children handed to Providers are exactly the children received,
\* nothing of them appears outside Providers, and the caller's props object
\* still holds the same children after the render.
C2_ChildrenPassedUnchanged ==
    /\ \A i \in Rendered :
          /\ CountType(Tree(i), "Providers") = 1
          /\ ProvidersOf(i).type = "Providers"
          /\ ProvidersOf(i).children = <<renders[i].given>>
          /\ Size(Strip(Tree(i))) = 3
          /\ Size(Tree(i)) = 3 + Size(renders[i].given)
    /\ renders # <<>> => props.children = renders[Len(renders)].given

C2_Witness ==
    \E i \in Rendered :
        /\ IsArrayOf(renders[i].given, 2)
        /\ renders[i].given.children[1] # renders[i].given.children[2]
        /\ ProvidersOf(i).children[1].children = renders[i].given.children
        /\ i = Len(renders)
        /\ props.children = renders[i].given

\* C3: every call returns the document shell, null and empty children
\* included; none throws or returns null or another tree.
C3_AlwaysReturnsShell ==
    \A i \in Rendered :
        /\ renders[i].outcome.kind = "return"
        /\ Tree(i) # NullNode
        /\ Strip(Tree(i)).type = "html"
        /\ Size(Strip(Tree(i))) = 3

C3_Witness ==
    \E i, j \in Rendered :
        /\ renders[i].given = NullNode
        /\ IsArrayOf(renders[j].given, 0)
        /\ renders[i].outcome.kind = "return"
        /\ renders[j].outcome.kind = "return"
        /\ Tree(i).type = "html"

\* C4: a render changes no module-level state: the font object, the record
\* of font-loader calls and the loaded flag are the same after it as before.
C4_RenderHasNoSideEffect ==
    [][Len(renders') > Len(renders) =>
          /\ inter' = inter
          /\ interCalls' = interCalls
          /\ loaded' = loaded]_vars

C4_Witness ==
    /\ Len(renders) >= 2
    /\ renders[1].given # renders[2].given
    /\ Len(interCalls) = 1
    /\ inter = interCalls[1].returned

\* C5: in every render the body's className is the className of the font
\* object the loader returned at module load, the same in every render.
C5_BodyHasFontClass ==
    /\ \A i \in Rendered :
          /\ interCalls # <<>>
          /\ AttrValues(BodyOf(i), "className") = {interCalls[1].returned.className}
    /\ \A i, j \in Rendered :
          AttrValues(BodyOf(i), "className") = AttrValues(BodyOf(j), "className")

C5_Witness ==
    /\ Len(renders) >= 2
    /\ renders[1].given # renders[2].given
    /\ AttrValues(BodyOf(1), "className") = {"__className_e8ce0c"}
    /\ AttrValues(BodyOf(2), "className") = {"__className_e8ce0c"}

\* C6: two renders given equal children return equal trees, whatever was
\* rendered before them, and any two renders differ only inside Providers.
C6_Deterministic ==
    \A i, j \in Rendered :
        /\ renders[i].given = renders[j].given => renders[i].outcome = renders[j].outcome
        /\ Strip(Tree(i)) = Strip(Tree(j))
        /\ renders[i].outcome.kind = renders[j].outcome.kind

C6_Witness ==
    /\ Len(renders) >= 3
    /\ renders[1].given = renders[3].given
    /\ renders[1].given # renders[2].given
    /\ renders[1].outcome = renders[3].outcome
    /\ renders[1].outcome # renders[2].outcome

\* C7: the font loader is called exactly once, with subsets ["latin"], when
\* the module is loaded; it has been called before any render and no render
\* calls it again.
C7_FontLoadedOnce ==
    /\ Len(interCalls) = (IF loaded THEN 1 ELSE 0)
    /\ renders # <<>> => Len(interCalls) = 1
    /\ \A k \in 1..Len(interCalls) : interCalls[k].options = [subsets |-> <<"latin">>]

C7_Witness ==
    /\ Len(renders) >= 3
    /\ Len(interCalls) = 1
    /\ interCalls[1].options.subsets = <<"latin">>

\* C8: in every render the html root has lang "en", whatever the children
\* and whatever was rendered before.
C8_LangIsEn ==
    \A i \in Rendered :
        /\ Tree(i).type = "html"
        /\ AttrValues(Tree(i), "lang") = {"en"}

C8_Witness ==
    \E i, j \in Rendered :
        /\ i < j
        /\ renders[i].given # NullNode
        /\ renders[j].given = NullNode
        /\ AttrValues(Tree(j), "lang") = {"en"}

====
